---------------------------- MODULE Spec2Model ----------------------------
(***************************************************************************)
(* Model of the skincare recommendation backend:                           *)
(*   app/services/llm_service.py            LLMService (provider failover) *)
(*   app/services/recommendation_service.py RecommendationService          *)
(*   app/models/recommendation.py, app/models/product.py  pydantic models  *)
(*   app/data/products.py                   the static catalog             *)
(*                                                                         *)
(* Python values are modelled as follows.  None and the empty string are   *)
(* the strings "None" and ""; a dict is a function from its keys; a list   *)
(* is a sequence.  user_concerns = <<>> stands for both None and [] (the   *)
(* code only tests its truthiness).  An exception is a record              *)
(* [type, msg]; a call that may raise returns [ok, ...].                   *)
(***************************************************************************)
EXTENDS Integers, Sequences, FiniteSets, TLC

(***************************************************************************)
(* Bounds of the model.                                                    *)
(***************************************************************************)
\* longest `recommendations` list the Generator returns
MaxRecs == 2
\* largest product subset handed to steps 3-4 when they are entered directly
MaxOffered == 2

(***************************************************************************)
(* Python helpers.                                                         *)
(***************************************************************************)
\* bool(x) for the str/bytes/None arguments of a request
Truthy(x) == x \notin {"None", ""}

\* dict.get(key, default)
Get(d, key, default) == IF key \in DOMAIN d THEN d[key] ELSE default

\* min(max(score, 0), 100), recommendation_service.py line 177
ClampScore(score) ==
    LET lo == IF score > 0 THEN score ELSE 0
    IN  IF lo < 100 THEN lo ELSE 100

\* the elements of a list, as list(set(v)) sees them
Elems(s) == {s[i] : i \in 1..Len(s)}

\* every list holding each element of S exactly once: list(set(v)) yields
\* one of them, which one depends on the interpreter's string hashing
Orders(S) == {s \in [1..Cardinality(S) -> S] : Elems(s) = S}

(***************************************************************************)
(* app/models/product.py: enumerations and the Product model.              *)
(***************************************************************************)
SkinType == {"dry", "oily", "combination", "sensitive", "normal"}

SkinConcern == {"acne", "wrinkles", "dark_spots", "redness", "dullness",
                "large_pores", "dehydration", "eczema", "sensitivity",
                "moisturization", "anti_aging", "anti_oxidant"}

\* app/models/recommendation.py AgeCategory
AgeCategory == {"0-12", "13-19", "20-35", "36-50", "50+"}

\* The fields class Product declares.  `category` is commented out in the
\* class, and pydantic ignores keyword arguments that are not fields.
ProductFields == {"id", "name", "suitable_skin_types", "targets_concerns"}

\* Product(**kwargs): keeps the declared fields only.  (price, description,
\* key_ingredients and benefits satisfy their constraints for every catalog
\* entry and are read by no code under study; they are left out.)
Product(kwargs) ==
    [f \in (DOMAIN kwargs) \cap ProductFields |-> kwargs[f]]

(***************************************************************************)
(* app/data/products.py: the keyword arguments of the six Product(...)     *)
(* calls, in order, and the list get_all_products returns.                 *)
(***************************************************************************)
CatalogData == <<
    [id |-> "prod_001", name |-> "HydraGlow", category |-> "face_cream",
     suitable_skin_types |-> {"dry", "normal", "sensitive"},
     targets_concerns |-> {"dehydration", "wrinkles", "dullness"}],
    [id |-> "prod_002", name |-> "ClearBalance", category |-> "face_cream",
     suitable_skin_types |-> {"oily", "combination"},
     targets_concerns |-> {"acne", "large_pores", "redness"}],
    [id |-> "prod_003", name |-> "AgeLess", category |-> "face_cream",
     suitable_skin_types |-> {"normal", "dry", "combination"},
     targets_concerns |-> {"wrinkles", "dark_spots", "dullness"}],
    [id |-> "prod_004", name |-> "SensiCalm", category |-> "face_cream",
     suitable_skin_types |-> {"sensitive", "dry"},
     targets_concerns |-> {"redness", "dehydration"}],
    [id |-> "prod_005", name |-> "BrightGlow", category |-> "face_cream",
     suitable_skin_types |-> {"normal", "combination", "dry"},
     targets_concerns |-> {"dark_spots", "dullness"}],
    [id |-> "prod_006", name |-> "SilkTouch", category |-> "hand_cream",
     suitable_skin_types |-> {"dry", "normal"},
     targets_concerns |-> {"dehydration"}] >>

get_all_products == [i \in 1..Len(CatalogData) |-> Product(CatalogData[i])]

CatalogIds == {CatalogData[i].id : i \in 1..Len(CatalogData)}


(***************************************************************************)
(* Exceptions and fallible results.                                        *)
(***************************************************************************)
NoValue == <<>>

Ok(v) == [ok |-> TRUE, value |-> v, type |-> "None", msg |-> "None"]

Raise(t, m) == [ok |-> FALSE, value |-> NoValue, type |-> t, msg |-> m]

(***************************************************************************)
(* app/models/recommendation.py: the models recommendation_service.py      *)
(* imports (lines 5-10 of the service).                                    *)
(***************************************************************************)
\* max_items of SkinAnalysis.targets_concerns
MaxConcernItems == 5
\* max_items of RecommendationResponse.recommendations
MaxRecommendationItems == 3

\* SkinAnalysis(**data): the set of results the constructor can produce.
\* suitable_skin_types and age_category are required enum fields;
\* targets_concerns defaults to [] (a default is not validated), else it
\* holds at most 5 SkinConcern values, validate_concerns rejects an empty
\* list and returns list(set(v)).
SkinAnalysis(data) ==
    IF \/ "suitable_skin_types" \notin DOMAIN data
       \/ "age_category" \notin DOMAIN data
    THEN {Raise("ValidationError", "field required")}
    ELSE IF \/ data.suitable_skin_types \notin SkinType
            \/ data.age_category \notin AgeCategory
    THEN {Raise("ValidationError", "not a valid enumeration member")}
    ELSE IF "targets_concerns" \notin DOMAIN data
    THEN {Ok([suitable_skin_types |-> data.suitable_skin_types,
              targets_concerns |-> <<>>,
              age_category |-> data.age_category])}
    ELSE IF \/ ~(Elems(data.targets_concerns) \subseteq SkinConcern)
            \/ Len(data.targets_concerns) > MaxConcernItems
    THEN {Raise("ValidationError", "targets_concerns")}
    ELSE IF data.targets_concerns = <<>>
    THEN {Raise("ValidationError", "At least one concern must be identified")}
    ELSE {Ok([suitable_skin_types |-> data.suitable_skin_types,
              targets_concerns |-> cs,
              age_category |-> data.age_category]) :
            cs \in Orders(Elems(data.targets_concerns))}

\* ProductRecommendation(**kwargs): product, match_score (0..100),
\* match_breakdown and justification (min_length 20) are required; other
\* keyword arguments are ignored.  No caller passes a justification, so its
\* length check is not modelled.
ProductRecommendationFields ==
    {"product", "match_score", "match_breakdown", "justification",
     "expected_benefits"}

ProductRecommendation(kwargs) ==
    IF ~({"product", "match_score", "match_breakdown", "justification"}
             \subseteq DOMAIN kwargs)
    THEN Raise("ValidationError", "field required")
    ELSE IF kwargs.match_score < 0 \/ kwargs.match_score > 100
    THEN Raise("ValidationError", "match_score")
    ELSE Ok([f \in (DOMAIN kwargs) \cap ProductRecommendationFields
                 |-> kwargs[f]])

\* RecommendationResponse(**kwargs): skin_analysis is required,
\* recommendations defaults to [] and holds at most 3 items (no minimum);
\* general_skincare_tips is not a field of this model and is ignored.
\* routine_advice and ingredients_guidance take their defaults.
RecommendationResponse(kwargs) ==
    IF "skin_analysis" \notin DOMAIN kwargs
    THEN Raise("ValidationError", "field required")
    ELSE IF Len(Get(kwargs, "recommendations", <<>>)) > MaxRecommendationItems
    THEN Raise("ValidationError", "recommendations")
    ELSE Ok([skin_analysis |-> kwargs.skin_analysis,
             recommendations |-> Get(kwargs, "recommendations", <<>>)])

(***************************************************************************)
(* app/config.py: the settings the services read.                          *)
(***************************************************************************)
SettingsSet ==
    [openai_api_key : {"None", "sk-o"},
     custom_llm_api_key : {"None", "sk-c"},
     primary_llm_provider : {"openai", "custom", "groq"}]

(***************************************************************************)
(* app/services/llm_service.py                                             *)
(***************************************************************************)
ProviderNames == {"openai", "custom"}

\* LLMService.__init__, lines 124-139: the provider table in insertion order
InitProviders(s) ==
    (IF Truthy(s.openai_api_key) THEN <<"openai">> ELSE <<>>) \o
    (IF Truthy(s.custom_llm_api_key) THEN <<"custom">> ELSE <<>>)

\* the configured name kept whether or not that provider was initialized
InitPrimary_configured(s, provs) == s.primary_llm_provider

\* LLMService.__init__, lines 144-149
InitPrimary(s, provs) ==
    IF s.primary_llm_provider \in Elems(provs)
    THEN s.primary_llm_provider
    ELSE provs[1]

\* What a provider call produces: `network` tells whether the remote API
\* was called.  `answer` is what the remote API does for this request.
ProviderRaise(net) ==
    [ok |-> FALSE, value |-> NoValue, network |-> net]

\* OpenAIProvider.analyze_image: uses the bytes, else the URL, else raises
OpenAIAnalyzeImage(image_data, image_url, answer) ==
    IF Truthy(image_data) \/ Truthy(image_url)
    THEN [ok |-> answer.ok, value |-> answer.value, network |-> TRUE]
    ELSE ProviderRaise(FALSE)

\* a custom provider that posts to its API whatever it was given
CustomAnalyzeImage_any_input(image_data, image_url, answer) ==
    [ok |-> answer.ok, value |-> answer.value, network |-> TRUE]

\* CustomLLMProvider.analyze_image: raises unless it is given a URL
CustomAnalyzeImage(image_data, image_url, answer) ==
    IF ~Truthy(image_url)
    THEN ProviderRaise(FALSE)
    ELSE [ok |-> answer.ok, value |-> answer.value, network |-> TRUE]

analyze_image(name, image_data, image_url, answers) ==
    IF name = "openai"
    THEN OpenAIAnalyzeImage(image_data, image_url, answers[name])
    ELSE CustomAnalyzeImage(image_data, image_url, answers[name])

\* The arguments analyze_skin passes to the primary provider (lines 162-166)
\* and to a fallback provider (lines 177-181)
PrimaryArgs(image_data, image_url) ==
    [image_data |-> image_data, image_url |-> image_url]


\* a fallback call that forwards the URL only
FallbackArgs_url_only(image_data, image_url) ==
    [image_data |-> "None", image_url |-> image_url]

FallbackArgs(image_data, image_url) ==
    [image_data |-> image_data, image_url |-> image_url]

(***************************************************************************)
(* app/services/recommendation_service.py: the pure parts.                 *)
(***************************************************************************)
\* a slice that lets a fourth entry through
TopN_one_more == MaxRecommendationItems + 1

\* the slice [:3] of line 167
TopN == 3

\* _get_filtered_products, lines 138-143: the list comprehension, evaluated
\* product by product.  Reading an attribute the object does not have
\* raises AttributeError; `and` and any() evaluate left to right and stop
\* early.
RECURSIVE FilterFrom(_, _, _)
FilterFrom(products, skin_analysis, acc) ==
    IF products = <<>> THEN Ok(acc)
    ELSE LET p == Head(products)
             rest == Tail(products)
         IN  IF "category" \notin DOMAIN p
             THEN Raise("AttributeError", "category")
             ELSE IF p.category # "face_cream"
             THEN FilterFrom(rest, skin_analysis, acc)
             ELSE IF "skin_type" \notin DOMAIN skin_analysis
             THEN Raise("AttributeError", "skin_type")
             ELSE IF skin_analysis.skin_type \notin p.suitable_skin_types
             THEN FilterFrom(rest, skin_analysis, acc)
             ELSE IF "concerns" \notin DOMAIN skin_analysis
             THEN Raise("AttributeError", "concerns")
             ELSE IF \E c \in Elems(skin_analysis.concerns) :
                         c \in p.targets_concerns
             THEN FilterFrom(rest, skin_analysis, Append(acc, p))
             ELSE FilterFrom(rest, skin_analysis, acc)

_get_filtered_products(skin_analysis) ==
    FilterFrom(get_all_products, skin_analysis, <<>>)


\* a product_map built from the whole catalog instead of the offered subset
product_map_catalog(available_products) ==
    [id \in {get_all_products[i].id : i \in 1..Len(get_all_products)} |->
        get_all_products[CHOOSE i \in 1..Len(get_all_products) :
                             get_all_products[i].id = id]]

\* line 164: {p.id: p for p in available_products}
product_map(available_products) ==
    [id \in {available_products[i].id : i \in 1..Len(available_products)} |->
        LET last == CHOOSE i \in 1..Len(available_products) :
                      /\ available_products[i].id = id
                      /\ \A j \in 1..Len(available_products) :
                            available_products[j].id = id => j <= i
        IN  available_products[last]]

\* the increment issued before the recommendation is constructed
TrackedWhenRejected_eager(tracked, product_id) ==
    Append(tracked, product_id)

\* line 182 follows lines 175-180: an entry whose ProductRecommendation
\* raises has not been given to _track_recommendation
TrackedWhenRejected(tracked, product_id) == tracked

\* The loop of lines 167-182 over the entries still to be examined.
\* st.accepted lists the product ids that passed lines 168-173 (for which
\* line 175 was reached), st.tracked the ids given to _track_recommendation.
RECURSIVE BuildLoop(_, _, _)
BuildLoop(recs, pm, st) ==
    IF recs = <<>> THEN st
    ELSE LET rec == Head(recs)
         IN  IF ~Truthy(Get(rec, "product_id", "None"))
             THEN BuildLoop(Tail(recs), pm, st)
             ELSE IF rec.product_id \notin DOMAIN pm
             THEN BuildLoop(Tail(recs), pm, st)
             ELSE LET made == ProductRecommendation(
                         [product |-> pm[rec.product_id],
                          match_score |->
                              ClampScore(Get(rec, "match_score", 0)),
                          personalized_reason |->
                              Get(rec, "personalized_reason", ""),
                          key_benefits_for_user |->
                              Get(rec, "key_benefits_for_user", <<>>)])
                      seen == Append(st.accepted, rec.product_id)
                  IN  IF ~made.ok
                      THEN [st EXCEPT
                              !.exc = made.type,
                              !.accepted = seen,
                              !.tracked =
                                  TrackedWhenRejected(@, rec.product_id)]
                      ELSE BuildLoop(Tail(recs), pm,
                             [st EXCEPT
                                !.recommendations = Append(@, made.value),
                                !.accepted = seen,
                                !.tracked = Append(@, rec.product_id)])

\* _build_response, lines 164-190
_build_response(skin_analysis, recommendations_data, available_products) ==
    LET all == Get(recommendations_data, "recommendations", <<>>)
        top == SubSeq(all, 1, IF Len(all) < TopN THEN Len(all) ELSE TopN)
        loop == BuildLoop(top, product_map(available_products),
                          [exc |-> "None", recommendations |-> <<>>,
                           accepted |-> <<>>, tracked |-> <<>>])
        made == RecommendationResponse(
                    [skin_analysis |-> skin_analysis,
                     recommendations |-> loop.recommendations,
                     general_skincare_tips |->
                         Get(recommendations_data, "general_skincare_tips",
                             <<>>)])
    IN  IF loop.exc # "None"
        THEN [ok |-> FALSE, value |-> NoValue, type |-> loop.exc,
              accepted |-> loop.accepted, tracked |-> loop.tracked]
        ELSE [ok |-> made.ok, value |-> made.value, type |-> made.type,
              accepted |-> loop.accepted, tracked |-> loop.tracked]

(***************************************************************************)
(* What get_recommendations delivers to its caller.                        *)
(***************************************************************************)
Pending ==
    [kind |-> "pending", type |-> "None", msg |-> "None", cause |-> "None",
     cause_msg |-> "None", response |-> NoValue]

Returned(response) ==
    [kind |-> "response", type |-> "None", msg |-> "None", cause |-> "None",
     cause_msg |-> "None", response |-> response]

\* an exception of type t and message m, raised `from` exception e
Raised(t, m, e) ==
    [kind |-> "error", type |-> t, msg |-> m, cause |-> e.type,
     cause_msg |-> e.msg, response |-> NoValue]

NoCause == [type |-> "None", msg |-> "None"]

\* lines 87-88, raised outside the try block
InputError ==
    Raised("ValueError",
           "Either image_data, image_url or user_concerns must be provided",
           NoCause)

\* llm_service.py line 142, raised by LLMService()
ConfigurationError ==
    Raised("ValueError", "No LLM providers are available", NoCause)

\* llm_service.py line 189
AllProvidersFailed == Raise("Exception", "All LLM providers failed")

\* the except clauses of lines 103-108; e is the exception raised inside
\* the try block
HandleException(e) ==
    IF e.type = "ValidationError"
    THEN Raised("ValueError", "Invalid data received from services", e)
    ELSE Raised("ServiceError", "Recommendation service unavailable", e)

\* line 87: any([image_data, image_url, user_concerns])
HasInput(image_data, image_url, user_concerns) ==
    Truthy(image_data) \/ Truthy(image_url) \/ user_concerns # <<>>


\* a request without an image still sent to the vision providers
NeedsVision_always(image_data, image_url) == TRUE

\* line 119: image_data or image_url
NeedsVision(image_data, image_url) ==
    Truthy(image_data) \/ Truthy(image_url)


\* a fallback loop that does not skip the primary provider
IsFallback_any(provider_name, primary) == TRUE

\* llm_service.py line 174: provider_name != self.primary_provider
IsFallback(provider_name, primary) == provider_name # primary

(***************************************************************************)
(* The values the environment supplies.                                    *)
(***************************************************************************)
ImageDatas == {"None", "img"}
ImageUrls == {"None", "http://img"}
UserConcerns == {<<>>, <<"acne">>}

\* JSON objects a vision provider may return
AnalysisPayloads ==
    {[suitable_skin_types |-> "oily", targets_concerns |-> <<"acne">>,
      age_category |-> "20-35"],
     [suitable_skin_types |-> "dry",
      targets_concerns |-> <<"dehydration", "wrinkles", "dehydration">>,
      age_category |-> "36-50"],
     [suitable_skin_types |-> "oily", targets_concerns |-> <<>>,
      age_category |-> "20-35"],
     [targets_concerns |-> <<"acne">>],
     [suitable_skin_types |-> "combination",
      targets_concerns |-> <<"acne", "redness", "large_pores", "dullness">>,
      age_category |-> "20-35"],
     [suitable_skin_types |-> "normal", age_category |-> "50+"]}

\* what a provider's remote API does when it is reached
ProviderAnswers ==
    {[ok |-> FALSE, value |-> NoValue]} \cup
    {[ok |-> TRUE, value |-> p] : p \in AnalysisPayloads}

\* entries of the Generator's `recommendations` list
RecEntries ==
    {[match_score |-> 50],
     [product_id |-> "prod_003"],
     [product_id |-> "prod_999", match_score |-> 50]} \cup
    {[product_id |-> "prod_002", match_score |-> s] : s \in {-10, 50, 150}}

RecLists == UNION {[1..n -> RecEntries] : n \in 0..MaxRecs}

\* JSON objects the Generator may return
\* lists of four entries: three that lines 168-173 skip (no product_id,
\* or an id outside the catalog), then one that names a catalog product
LongRecLists ==
    {<<a, a, b, c>> :
        a \in {[match_score |-> 50]},
        b \in {[match_score |-> 50],
               [product_id |-> "prod_999", match_score |-> 50]},
        c \in {[product_id |-> "prod_003"],
               [product_id |-> "prod_002", match_score |-> 50]}}

GeneratorPayloads ==
    {[general_skincare_tips |-> <<>>]} \cup
    {[recommendations |-> l] : l \in RecLists \cup LongRecLists}

\* the outcomes of LLMService.get_recommendations: the API call or
\* json.loads raises (lines 237-239 re-raise), or the parsed object
GeneratorOutcomes ==
    {Raise("JSONDecodeError", "not well-formed JSON"),
     Raise("APIError", "request failed")} \cup
    {Ok(p) : p \in GeneratorPayloads}

\* LLMService.get_recommendations, lines 199-239
llm_get_recommendations(provs) ==
    IF "openai" \in Elems(provs) \/ "custom" \in Elems(provs)
    THEN GeneratorOutcomes
    ELSE {Raise("Exception",
                "No available providers for recommendation generation")}

\* SkinAnalysis objects and product lists of the declared parameter types
\* of _get_llm_recommendations and _build_response
TypedAnalyses ==
    {r.value : r \in {o \in UNION {SkinAnalysis(p) : p \in AnalysisPayloads} :
                        o.ok /\ Len(o.value.targets_concerns) \in 1..2}}

Ascending(S) ==
    CHOOSE f \in [1..Cardinality(S) -> S] :
        \A i, j \in 1..Cardinality(S) : i < j => f[i] < f[j]

TypedProductLists ==
    {[k \in 1..Cardinality(S) |-> get_all_products[Ascending(S)[k]]] :
        S \in {T \in SUBSET (1..Len(CatalogData)) :
                  Cardinality(T) <= MaxOffered}}

(***************************************************************************)
(* The Analytics Sink: a Redis server holding the hash                     *)
(* "product_recommendations" and the sorted set "recommendations_by_date". *)
(***************************************************************************)
\* number of direct _track_recommendation calls in flight together
MaxTrackers == 2

\* what __init__ finds: no settings.redis_url (the default of config.py),
\* a URL whose server refuses the ping, or a URL whose server answers it
RedisEnvs == {"no_url", "unreachable", "reachable"}

\* _init_redis with the ping answered: the client object is kept
_init_redis_keep_client(env) ==
    IF env = "no_url" THEN "None" ELSE "client"

\* _init_redis, lines 44-61: None without a URL (line 46) or when the ping
\* raises RedisError (lines 59-61), otherwise the client
_init_redis(env) ==
    IF env = "reachable" THEN "client" ELSE "None"

\* datetime.today().strftime("%Y-%m-%d"), line 200
Today == "2025-01-01"

Dates == {Today}

\* the server's keys before any recommendation is recorded; a field that
\* is absent from the hash or the sorted set counts 0
EmptyStore ==
    [product_recommendations |-> [p \in CatalogIds |-> 0],
     recommendations_by_date |-> [d \in Dates |-> 0]]

\* a counter that is overwritten instead of incremented
hincrby_overwrite(store, name, key, amount) ==
    [store EXCEPT ![name][key] = amount]

\* HINCRBY name key amount, executed by the server in one step
hincrby(store, name, key, amount) ==
    [store EXCEPT ![name][key] = @ + amount]

\* ZINCRBY name amount value, executed by the server in one step
zincrby(store, name, amount, value) ==
    [store EXCEPT ![name][value] = @ + amount]

\* the commands _track_recommendation queues on its pipeline, lines 198-200
TrackPipeline(product_id) ==
    <<[op |-> "hincrby", name |-> "product_recommendations",
       key |-> product_id, amount |-> 1],
      [op |-> "zincrby", name |-> "recommendations_by_date",
       key |-> Today, amount |-> 1]>>

\* what pipe.execute() meets: the MULTI/EXEC block runs and its reply
\* arrives; the connection is refused (ConnectionError, nothing runs); the
\* block runs but its reply is lost (TimeoutError)
SinkOutcomes == {"ok", "refused", "reply_lost"}

\* the server ran the queued block
Applied(outcome) == outcome \in {"ok", "reply_lost"}

\* pipe.execute() raised a RedisError
SinkFailed(outcome) == outcome \in {"refused", "reply_lost"}

RECURSIVE RunAll(_, _)
\* the server runs a MULTI/EXEC block as one step
RunAll(store, cmds) ==
    IF cmds = <<>> THEN store
    ELSE LET c == Head(cmds)
             next == IF c.op = "hincrby"
                     THEN hincrby(store, c.name, c.key, c.amount)
                     ELSE zincrby(store, c.name, c.amount, c.key)
         IN  RunAll(next, Tail(cmds))

\* a pipeline without MULTI/EXEC: when the connection drops the server
\* has run the first command only
execute_no_transaction(store, cmds, outcome) ==
    IF outcome = "ok" THEN RunAll(store, cmds)
    ELSE IF outcome = "reply_lost" /\ cmds # <<>>
    THEN RunAll(store, <<Head(cmds)>>)
    ELSE store

\* pipe.execute(), line 201
execute(store, cmds, outcome) ==
    IF Applied(outcome) THEN RunAll(store, cmds) ELSE store

\* a handler that lets the RedisError of pipe.execute() escape
TrackRaises_uncaught(outcome) == SinkFailed(outcome)

\* whether an exception leaves _track_recommendation: `except RedisError`
\* (lines 202-203) logs and returns
TrackRaises(outcome) == FALSE

\* _track_recommendation, lines 192-203, as one call
_track_recommendation(client, store, product_id, outcome) ==
    IF client = "None"
    THEN [store |-> store, raised |-> FALSE]
    ELSE [store |-> execute(store, TrackPipeline(product_id), outcome),
          raised |-> TrackRaises(outcome)]

RECURSIVE TrackAll(_, _, _, _)
\* the _track_recommendation calls of one _build_response (line 182), in
\* order; outs gives what the sink does at each
TrackAll(client, store, ids, outs) ==
    IF ids = <<>> THEN store
    ELSE TrackAll(client,
                  _track_recommendation(client, store, Head(ids),
                                        Head(outs)).store,
                  Tail(ids), Tail(outs))

\* RecommendationAnalytics(), recommendation.py lines 101-105
EmptyAnalytics ==
    [product_stats |-> <<>>, daily_stats |-> <<>>,
     total_recommendations |-> 0]

\* the hash's fields and the sorted set's members, in the order the
\* server lists them
HashFields == [i \in 1..Len(CatalogData) |-> CatalogData[i].id]

SetMembers == <<Today>>

\* what the client returns for a key: from_url (lines 49-54) does not set
\* decode_responses, so keys arrive as bytes
Reply(k) == [type |-> "bytes", value |-> k]

\* hgetall("product_recommendations"), line 211
hgetall(store) ==
    LET present == SelectSeq(HashFields,
                     LAMBDA p : store.product_recommendations[p] # 0)
    IN  [k \in 1..Len(present) |->
           [key |-> Reply(present[k]),
            count |-> store.product_recommendations[present[k]]]]

\* zrange("recommendations_by_date", 0, -1, withscores=True), lines 212-216
zrange(store) ==
    LET present == SelectSeq(SetMembers,
                     LAMBDA d : store.recommendations_by_date[d] # 0)
    IN  [k \in 1..Len(present) |->
           [key |-> Reply(present[k]),
            count |-> store.recommendations_by_date[present[k]]]]

RECURSIVE SortedByCount(_)
\* sorted(..., key=lambda x: x["count"], reverse=True), line 239 (stable)
SortedByCount(stats) ==
    IF stats = <<>> THEN <<>>
    ELSE LET h == Head(stats)
             rest == SortedByCount(Tail(stats))
             before == SelectSeq(rest, LAMBDA x : x.count > h.count)
             after == SelectSeq(rest, LAMBDA x : x.count <= h.count)
         IN  before \o <<h>> \o after

RECURSIVE ProductCounts(_)
\* the comprehension of lines 231-238: `if pid in product_map` compares
\* the returned key with the catalog's str ids
ProductCounts(counts) ==
    IF counts = <<>> THEN <<>>
    ELSE LET c == Head(counts)
             rest == ProductCounts(Tail(counts))
         IN  IF c.key.type = "str" /\ c.key.value \in CatalogIds
             THEN <<[product_id |-> c.key.value, count |-> c.count]>>
                    \o rest
             ELSE rest

\* lines 226-239
_parse_product_counts(counts) == SortedByCount(ProductCounts(counts))

\* lines 241-249: bytes dates are decoded
_parse_date_stats(date_stats) ==
    [k \in 1..Len(date_stats) |->
       [date |-> date_stats[k].key.value, count |-> date_stats[k].count]]

\* what the two reads of get_analytics meet
ReadOutcomes == {"ok", "refused"}

\* get_analytics, lines 205-224
get_analytics(client, store, outcome) ==
    IF client = "None" THEN EmptyAnalytics
    ELSE IF outcome # "ok" THEN EmptyAnalytics
    ELSE [product_stats |-> _parse_product_counts(hgetall(store)),
          daily_stats |-> _parse_date_stats(zrange(store)),
          total_recommendations |-> 0]

\* product ids given to direct calls of _track_recommendation
TrackIds == {"prod_002", "prod_003"}

Trackers == 1..MaxTrackers

IdleTracker == [pc |-> "idle", product_id |-> "None", outcome |-> "None"]

(***************************************************************************)
(* State.                                                                  *)
(***************************************************************************)
VARIABLES
    settings,             \* app.config.settings
    providers,            \* LLMService.providers, in insertion order
    primary_provider,     \* LLMService.primary_provider
    entry,                \* where the request enters the service
    pc,                   \* the request's position
    image_data, image_url, user_concerns,   \* arguments of the request
    answers,              \* what each provider's remote API answers
    calls,                \* the analyze_image calls made, in order
    fb,                   \* position of analyze_skin's fallback loop
    analysis_data,        \* _analyze_skin's analysis_data
    skin_analysis,        \* get_recommendations' skin_analysis
    face_creams,          \* get_recommendations' face_creams
    generator_calls,      \* calls of LLMService.get_recommendations
    recommendations_data, \* get_recommendations' recommendations_data
    accepted,             \* product ids that passed lines 168-173
    tracked,              \* product ids given to _track_recommendation
    steps,                \* the steps of get_recommendations run so far
    result,               \* what the caller receives
    prev,                 \* how the service's previous request ended
    redis_env,            \* settings.redis_url and the server behind it
    redis_client,         \* RecommendationService.redis_client
    redis,                \* the keys held by the Redis server
    trk,                  \* the direct calls of _track_recommendation
    analytics,            \* what get_analytics last returned
    config_errors         \* times LLMService.__init__ raised line 142

vars == <<settings, providers, primary_provider, entry, pc, image_data,
          image_url, user_concerns, answers, calls, fb, analysis_data,
          skin_analysis, face_creams, generator_calls, recommendations_data,
          accepted, tracked, steps, result, prev, redis_env, redis_client,
          redis, trk, analytics, config_errors>>

(***************************************************************************)
(* A request enters either through get_recommendations (lines 63-108) or,  *)
(* with entry = "step3", at line 97 with skin_analysis and face_creams     *)
(* ranging over the values of their declared types.  _get_filtered_products*)
(* raises for every catalog product (Product has no `category`), so Steps  *)
(* 3 and 4 are not reached from Step 2; the second entry is how their      *)
(* contract is examined.                                                   *)
(***************************************************************************)
\* the arguments and environment of one request
RequestInputs(e, data, url, concerns, ans, analysis, creams) ==
    \/ /\ e = "get_recommendations"
       /\ data \in ImageDatas
       /\ url \in ImageUrls
       /\ concerns \in UserConcerns
       /\ ans \in [ProviderNames -> ProviderAnswers]
       /\ analysis = NoValue
       /\ creams = <<>>
    \/ /\ e = "step3"
       /\ data = "img"
       /\ url = "None"
       /\ concerns = <<>>
       /\ ans = [n \in ProviderNames |-> [ok |-> FALSE, value |-> NoValue]]
       /\ analysis \in TypedAnalyses
       /\ creams \in TypedProductLists

NoPrevious == [cond |-> "none", error |-> "none"]

\* the state before RecommendationService.__init__ has run
Unbuilt ==
    /\ settings \in SettingsSet
    /\ providers = <<>>
    /\ primary_provider = "None"
    /\ redis_client = "None"
    /\ redis = EmptyStore
    /\ trk = [t \in Trackers |-> IdleTracker]
    /\ analytics = NoValue
    /\ config_errors = 0
    /\ pc = "constructing"
    /\ calls = <<>>
    /\ fb = 0
    /\ analysis_data = NoValue
    /\ generator_calls = 0
    /\ recommendations_data = NoValue
    /\ accepted = <<>>
    /\ tracked = <<>>
    /\ steps = <<>>
    /\ result = Pending
    /\ prev = NoPrevious

\* a request to a service configured without a Redis URL (config.py's
\* default)
Init ==
    /\ Unbuilt
    /\ redis_env = "no_url"
    /\ RequestInputs(entry, image_data, image_url, user_concerns, answers,
                     skin_analysis, face_creams)

\* the variables of the Analytics Sink
SinkState == <<redis_env, redis_client, redis, trk, analytics>>

\* the variables fixed when the request is made
Request ==
    <<settings, entry, image_data, image_url, user_concerns, answers, prev>>

\* RecommendationService.__init__ (lines 34-42): LLMService() at line 41
\* (llm_service.py lines 123-149), then _init_redis at line 42
Construct ==
    /\ pc = "constructing"
    /\ LET provs == InitProviders(settings)
       IN  IF provs = <<>>
           THEN /\ pc' = "no_service"
                /\ result' = ConfigurationError
                /\ config_errors' = config_errors + 1
                /\ UNCHANGED <<providers, primary_provider, redis_client>>
           ELSE /\ providers' = provs
                /\ primary_provider' = InitPrimary(settings, provs)
                /\ redis_client' = _init_redis(redis_env)
                /\ pc' = IF entry = "get_recommendations" THEN "start"
                         ELSE IF entry = "step3" THEN "generating"
                         ELSE IF entry = "upload" THEN "uploading"
                         ELSE "serving"
                /\ UNCHANGED <<result, config_errors>>
    /\ UNCHANGED <<Request, redis_env, redis, trk, analytics>>
    /\ UNCHANGED <<calls, fb, analysis_data, skin_analysis,
                   face_creams, generator_calls, recommendations_data,
                   accepted, tracked, steps>>

\* get_recommendations lines 84-92 and _analyze_skin lines 117-119
Validate ==
    /\ pc = "start"
    /\ IF ~HasInput(image_data, image_url, user_concerns)
       THEN /\ result' = InputError
            /\ pc' = "failed"
            /\ UNCHANGED <<steps, analysis_data>>
       ELSE /\ steps' = Append(steps, "analyze")
            /\ UNCHANGED result
            /\ IF NeedsVision(image_data, image_url)
               THEN pc' = "analyzing" /\ UNCHANGED analysis_data
               ELSE pc' = "parsing" /\ analysis_data' = NoValue
    /\ UNCHANGED <<Request, SinkState, config_errors>>
    /\ UNCHANGED <<providers, primary_provider, calls, fb,
                   skin_analysis, face_creams, generator_calls,
                   recommendations_data, accepted, tracked>>

\* one analyze_image call, as analyze_skin logs it
Call(name, args) ==
    LET r == analyze_image(name, args.image_data, args.image_url, answers)
    IN  [provider |-> name, image_data |-> args.image_data,
         image_url |-> args.image_url, ok |-> r.ok, value |-> r.value,
         network |-> r.network]

\* LLMService.analyze_skin lines 159-170: the primary provider
TryPrimary ==
    /\ pc = "analyzing"
    /\ LET c == Call(primary_provider, PrimaryArgs(image_data, image_url))
       IN  /\ calls' = Append(calls, c)
           /\ IF c.ok
              THEN /\ analysis_data' = c.value
                   /\ pc' = "parsing"
                   /\ UNCHANGED fb
              ELSE /\ pc' = "fallback"
                   /\ fb' = 1
                   /\ UNCHANGED analysis_data
    /\ UNCHANGED <<Request, SinkState, config_errors>>
    /\ UNCHANGED <<providers, primary_provider, skin_analysis,
                   face_creams, generator_calls, recommendations_data,
                   accepted, tracked, steps, result, prev>>

\* LLMService.analyze_skin lines 173-186: one iteration of the fallback loop
TryFallback ==
    /\ pc = "fallback"
    /\ fb <= Len(providers)
    /\ IF ~IsFallback(providers[fb], primary_provider)
       THEN /\ fb' = fb + 1
            /\ UNCHANGED <<calls, analysis_data, pc>>
       ELSE LET c == Call(providers[fb],
                          FallbackArgs(image_data, image_url))
            IN  /\ calls' = Append(calls, c)
                /\ IF c.ok
                   THEN /\ analysis_data' = c.value
                        /\ pc' = "parsing"
                        /\ UNCHANGED fb
                   ELSE /\ fb' = fb + 1
                        /\ UNCHANGED <<analysis_data, pc>>
    /\ UNCHANGED <<Request, SinkState, config_errors>>
    /\ UNCHANGED <<providers, primary_provider, skin_analysis,
                   face_creams, generator_calls, recommendations_data,
                   accepted, tracked, steps, result, prev>>

\* LLMService.analyze_skin lines 188-189, caught at get_recommendations
\* lines 106-108
AllFailed ==
    /\ pc = "fallback"
    /\ fb > Len(providers)
    /\ result' = HandleException(AllProvidersFailed)
    /\ pc' = "failed"
    /\ UNCHANGED <<Request, SinkState, config_errors>>
    /\ UNCHANGED <<providers, primary_provider, calls, fb,
                   analysis_data, skin_analysis, face_creams,
                   generator_calls, recommendations_data, accepted, tracked,
                   steps>>

\* _analyze_skin line 132: SkinAnalysis(**analysis_data)
ParseAnalysis ==
    /\ pc = "parsing"
    /\ \E o \in SkinAnalysis(analysis_data) :
          IF o.ok
          THEN /\ skin_analysis' = o.value
               /\ pc' = "filtering"
               /\ UNCHANGED result
          ELSE /\ result' = HandleException(o)
               /\ pc' = "failed"
               /\ UNCHANGED skin_analysis
    /\ UNCHANGED <<Request, SinkState, config_errors>>
    /\ UNCHANGED <<providers, primary_provider, calls, fb,
                   analysis_data, face_creams, generator_calls,
                   recommendations_data, accepted, tracked, steps>>

\* a filtering step whose failure is recorded while the request goes on to
\* the Generator
Filter_continue ==
    /\ pc = "filtering"
    /\ steps' = Append(steps, "filter")
    /\ LET r == _get_filtered_products(skin_analysis)
       IN  /\ pc' = "generating"
           /\ IF r.ok
              THEN face_creams' = r.value /\ UNCHANGED result
              ELSE result' = HandleException(r) /\ UNCHANGED face_creams
    /\ UNCHANGED <<Request, SinkState, config_errors>>
    /\ UNCHANGED <<providers, primary_provider, calls, fb,
                   analysis_data, skin_analysis, generator_calls,
                   recommendations_data, accepted, tracked>>

\* get_recommendations lines 94-95
Filter ==
    /\ pc = "filtering"
    /\ steps' = Append(steps, "filter")
    /\ LET r == _get_filtered_products(skin_analysis)
       IN  IF r.ok
           THEN /\ face_creams' = r.value
                /\ pc' = "generating"
                /\ UNCHANGED result
           ELSE /\ result' = HandleException(r)
                /\ pc' = "failed"
                /\ UNCHANGED face_creams
    /\ UNCHANGED <<Request, SinkState, config_errors>>
    /\ UNCHANGED <<providers, primary_provider, calls, fb,
                   analysis_data, skin_analysis, generator_calls,
                   recommendations_data, accepted, tracked>>

\* get_recommendations lines 97-98, _get_llm_recommendations lines 151-155
Generate ==
    /\ pc = "generating"
    /\ steps' = Append(steps, "generate")
    /\ generator_calls' = generator_calls + 1
    /\ \E o \in llm_get_recommendations(providers) :
          IF o.ok
          THEN /\ recommendations_data' = o.value
               /\ pc' = "reconciling"
               /\ UNCHANGED result
          ELSE /\ result' = HandleException(o)
               /\ pc' = "failed"
               /\ UNCHANGED recommendations_data
    /\ UNCHANGED <<Request, SinkState, config_errors>>
    /\ UNCHANGED <<providers, primary_provider, calls, fb,
                   analysis_data, skin_analysis, face_creams, accepted,
                   tracked>>

\* get_recommendations lines 100-101 with _build_response
BuildResponse ==
    /\ pc = "reconciling"
    /\ steps' = Append(steps, "build")
    /\ LET r == _build_response(skin_analysis, recommendations_data,
                                face_creams)
       IN  /\ accepted' = r.accepted
           /\ tracked' = r.tracked
           /\ \E outs \in [1..Len(r.tracked) -> SinkOutcomes] :
                 redis' = TrackAll(redis_client, redis, r.tracked, outs)
           /\ IF r.ok
              THEN result' = Returned(r.value) /\ pc' = "done"
              ELSE result' = HandleException([type |-> r.type,
                                              msg |-> "validation"])
                   /\ pc' = "failed"
    /\ UNCHANGED <<Request, redis_env, redis_client, trk, analytics,
                   config_errors>>
    /\ UNCHANGED <<providers, primary_provider, calls, fb,
                   analysis_data, skin_analysis, face_creams,
                   generator_calls, recommendations_data>>

Next ==
    \/ Construct
    \/ Validate
    \/ TryPrimary
    \/ TryFallback
    \/ AllFailed
    \/ ParseAnalysis
    \/ Filter
    \/ Generate
    \/ BuildResponse

Spec == Init /\ [][Next]_vars

\* every full request, and the Step-3 entry for one configuration and one
\* skin analysis (Steps 3 and 4 read neither)
InitFair ==
    /\ Init
    /\ entry = "step3" =>
          /\ settings = [openai_api_key |-> "sk-o",
                         custom_llm_api_key |-> "None",
                         primary_llm_provider |-> "openai"]
          /\ skin_analysis.suitable_skin_types = "oily"

\* get_recommendations is one sequential coroutine: while a step is
\* enabled (a provider call that returns or raises included) it is taken
SpecFair == InitFair /\ [][Next]_vars /\ WF_vars(Next)

(***************************************************************************)
(* A second request to the same service object.                            *)
(***************************************************************************)
\* the product ids of the subset handed to the Generator
OfferedIds == {face_creams[i].id : i \in 1..Len(face_creams)}

\* which "no result" condition the request met, if any
Condition ==
    IF /\ calls # <<>>
       /\ \A i \in 1..Len(calls) : ~calls[i].ok
       /\ pc = "failed"
    THEN "all_providers_failed"
    ELSE IF "generate" \in Elems(steps) /\ face_creams = <<>>
    THEN "no_suitable_products"
    ELSE IF "build" \in Elems(steps) /\ accepted = <<>>
    THEN "no_valid_recommendations"
    ELSE "other"

\* what tells two outcomes apart for the caller: the exception's type and
\* message and those of its __cause__, or "response" when a value is returned
Delivered(r) ==
    IF r.kind = "error" THEN <<r.type, r.msg, r.cause, r.cause_msg>>
    ELSE <<r.kind>>

NextRequest ==
    /\ pc \in {"done", "failed"}
    /\ prev = NoPrevious
    /\ prev' = [cond |-> Condition,
                error |-> IF result.kind = "error" THEN "raised" ELSE "none"]
                  @@ [delivered |-> Delivered(result)]
    /\ RequestInputs(entry', image_data', image_url', user_concerns',
                     answers', skin_analysis', face_creams')
    /\ pc' = IF entry' = "get_recommendations" THEN "start" ELSE "generating"
    /\ calls' = <<>>
    /\ fb' = 0
    /\ analysis_data' = NoValue
    /\ generator_calls' = 0
    /\ recommendations_data' = NoValue
    /\ accepted' = <<>>
    /\ tracked' = <<>>
    /\ steps' = <<>>
    /\ result' = Pending
    /\ UNCHANGED <<settings, providers, primary_provider, SinkState,
                   config_errors>>

NextSeq == Next \/ NextRequest

SpecSeq == Init /\ [][NextSeq]_vars

(***************************************************************************)
(* The Analytics Sink's methods.  With entry = "analytics" the service is  *)
(* built and _track_recommendation and get_analytics are called on it      *)
(* directly, MaxTrackers calls being in flight together (requests served   *)
(* by several workers share one Redis server).  _build_response never      *)
(* reaches line 182 (ProductRecommendation raises first), so this entry is *)
(* how the two methods are examined.                                       *)
(***************************************************************************)
\* the service's methods called directly: no request arguments
DirectInputs ==
    /\ entry = "analytics"
    /\ image_data = "None"
    /\ image_url = "None"
    /\ user_concerns = <<>>
    /\ answers = [n \in ProviderNames |-> [ok |-> FALSE, value |-> NoValue]]
    /\ skin_analysis = NoValue
    /\ face_creams = <<>>

\* a service with any Redis configuration, entered at Step 3 or through
\* the sink's methods
InitAnalytics ==
    /\ Unbuilt
    /\ redis_env \in RedisEnvs
    /\ \/ /\ entry = "step3"
          /\ RequestInputs(entry, image_data, image_url, user_concerns,
                           answers, skin_analysis, face_creams)
       \/ DirectInputs

\* the variables of a request's pipeline
Pipeline ==
    <<providers, primary_provider, pc, calls, fb, analysis_data,
      generator_calls, recommendations_data, accepted, tracked, steps,
      result, config_errors>>

\* _track_recommendation lines 194-200: return without a client, otherwise
\* queue the two commands on a pipeline
TrackCall(t) ==
    /\ entry = "analytics"
    /\ pc = "serving"
    /\ trk[t].pc = "idle"
    /\ \E id \in TrackIds :
          trk' = [trk EXCEPT ![t] =
                    [pc |-> IF redis_client = "None"
                            THEN "returned" ELSE "queued",
                     product_id |-> id, outcome |-> "None"]]
    /\ UNCHANGED <<Request, Pipeline, skin_analysis, face_creams, redis_env,
                   redis_client, redis, analytics>>

\* _track_recommendation lines 201-203: pipe.execute() and the handler
TrackExecute(t) ==
    /\ trk[t].pc = "queued"
    /\ \E o \in SinkOutcomes :
          /\ redis' = execute(redis, TrackPipeline(trk[t].product_id), o)
          /\ trk' = [trk EXCEPT ![t].outcome = o,
                                ![t].pc = IF TrackRaises(o)
                                          THEN "raised" ELSE "returned"]
    /\ UNCHANGED <<Request, Pipeline, skin_analysis, face_creams, redis_env,
                   redis_client, analytics>>

\* get_analytics, lines 205-224
GetAnalytics ==
    /\ entry = "analytics"
    /\ pc = "serving"
    /\ \E o \in ReadOutcomes :
          analytics' = get_analytics(redis_client, redis, o)
    /\ UNCHANGED <<Request, Pipeline, skin_analysis, face_creams, redis_env,
                   redis_client, redis, trk>>

NextAnalytics ==
    \/ Construct
    \/ Generate
    \/ BuildResponse
    \/ \E t \in Trackers : TrackCall(t)
    \/ \E t \in Trackers : TrackExecute(t)
    \/ GetAnalytics

SpecAnalytics == InitAnalytics /\ [][NextAnalytics]_vars

(***************************************************************************)
(* Requests as the HTTP endpoints serve them: get_recommendation_service   *)
(* (endpoints/recommendation.py lines 12-14) is a FastAPI dependency, so   *)
(* RecommendationService() is constructed for every incoming request.      *)
(***************************************************************************)
IncomingRequest ==
    /\ pc \in {"done", "failed", "no_service"}
    /\ entry = "get_recommendations"
    /\ prev = NoPrevious
    /\ prev' = [cond |-> Condition,
                error |-> IF result.kind = "error" THEN "raised" ELSE "none"]
                  @@ [delivered |-> Delivered(result)]
    /\ entry' = "get_recommendations"
    /\ RequestInputs(entry', image_data', image_url', user_concerns',
                     answers', skin_analysis', face_creams')
    /\ pc' = "constructing"
    /\ providers' = <<>>
    /\ primary_provider' = "None"
    /\ redis_client' = "None"
    /\ calls' = <<>>
    /\ fb' = 0
    /\ analysis_data' = NoValue
    /\ generator_calls' = 0
    /\ recommendations_data' = NoValue
    /\ accepted' = <<>>
    /\ tracked' = <<>>
    /\ steps' = <<>>
    /\ result' = Pending
    /\ UNCHANGED <<settings, redis_env, redis, trk, analytics,
                   config_errors>>

NextHttp == Next \/ IncomingRequest

SpecHttp == Init /\ [][NextHttp]_vars

(***************************************************************************)
(* The upload path: POST /analyze (endpoints/recommendation.py lines       *)
(* 17-52).  The service dependency is resolved first, then the endpoint    *)
(* passes the uploaded file through ImageService.validate_and_process_image*)
(* and calls get_recommendations with the bytes and the staged URL.        *)
(***************************************************************************)
\* the uploaded file: an image, or bytes that are not one
UploadedFiles == {"img", "not_an_image"}

\* what upload_to_temporary_storage does (image_service.py lines 78-110):
\* the file is written and its URL returned, or the write fails
StagingOutcomes == {"staged", "write_failed"}

\* the URL upload_to_temporary_storage returns
StagedUrl == "http://localhost:8000/temp_images/img.jpg"

\* image_service.py line 73: whether the bytes are staged
NeedsStaging(s) == s.primary_llm_provider = "custom"

\* HTTPException raised by the image service
UploadError(status) == Raised("HTTPException", status, NoCause)

InitUpload ==
    /\ Unbuilt
    /\ redis_env = "no_url"
    /\ entry = "upload"
    /\ image_data \in UploadedFiles
    /\ image_url = "None"
    /\ user_concerns = <<>>
    /\ answers \in [ProviderNames -> ProviderAnswers]
    /\ skin_analysis = NoValue
    /\ face_creams = <<>>

\* ImageService.validate_and_process_image (image_service.py lines 20-76)
\* and the call of get_recommendations (endpoint lines 36-39)
Upload ==
    /\ pc = "uploading"
    /\ IF image_data # "img"
       THEN /\ result' = UploadError("400 Invalid image file")
            /\ pc' = "failed"
            /\ UNCHANGED <<image_data, image_url>>
       ELSE /\ image_data' = "img_jpeg"
            /\ IF NeedsStaging(settings)
               THEN \E o \in StagingOutcomes :
                       IF o = "staged"
                       THEN /\ image_url' = StagedUrl
                            /\ pc' = "start"
                            /\ UNCHANGED result
                       ELSE /\ result' = UploadError("500 Failed to process image")
                            /\ pc' = "failed"
                            /\ UNCHANGED image_url
               ELSE /\ image_url' = "None"
                    /\ pc' = "start"
                    /\ UNCHANGED result
    /\ UNCHANGED <<settings, entry, user_concerns, answers, prev, SinkState,
                   config_errors>>
    /\ UNCHANGED <<providers, primary_provider, calls, fb, analysis_data,
                   skin_analysis, face_creams, generator_calls,
                   recommendations_data, accepted, tracked, steps>>

NextUpload ==
    \/ Construct
    \/ Upload
    \/ Validate
    \/ TryPrimary
    \/ TryFallback
    \/ AllFailed
    \/ ParseAnalysis
    \/ Filter

SpecUpload == InitUpload /\ [][NextUpload]_vars

(***************************************************************************)
(* Properties.                                                             *)
(***************************************************************************)
Terminal == pc \in {"done", "failed"}

\* the request carries neither image bytes nor an image URL
MissingImage == ~Truthy(image_data) /\ ~Truthy(image_url)

\* the entries of the Generator's list that _build_response examines
Examined ==
    LET all == Get(recommendations_data, "recommendations", <<>>)
    IN  SubSeq(all, 1, IF Len(all) < TopN THEN Len(all) ELSE TopN)

\* what provider n does, called on its own with the request's image
Standalone(n) == analyze_image(n, image_data, image_url, answers)

InFailover ==
    entry = "get_recommendations" /\ pc \notin {"constructing", "no_service"}

\* C1: every product of a returned response, and every product for which a
\* recommendation is built at all, belongs to the subset handed to
\* _build_response; an entry naming any other product, catalog product or
\* not, is passed over.
C1_OnlyOfferedProducts ==
    /\ \A i \in 1..Len(accepted) : accepted[i] \in OfferedIds
    /\ pc = "done" =>
          \A i \in 1..Len(result.response.recommendations) :
              result.response.recommendations[i].product \in Elems(face_creams)

\* a response was returned although the Generator named a catalog product
\* outside the offered subset
C1_Witness ==
    /\ pc = "done"
    /\ \E i \in 1..Len(Examined) :
          Get(Examined[i], "product_id", "None") \in CatalogIds \ OfferedIds

C3_FallbackResultIsSecondarys ==
    \A n \in ProviderNames :
        ( /\ InFailover
          /\ n \in Elems(providers)
          /\ n # primary_provider
          /\ ~Standalone(primary_provider).ok
          /\ Standalone(n).ok
          /\ pc \notin {"start", "analyzing", "fallback"} )
        => /\ analysis_data = Standalone(n).value
           /\ Len(calls) = 2
           /\ calls[2].provider = n
           /\ calls[2].image_data = image_data
           /\ calls[2].image_url = image_url
           /\ result.cause_msg # AllProvidersFailed.msg

\* the primary failed, the secondary answered, and its answer was taken
C3_Witness ==
    /\ InFailover
    /\ pc = "parsing"
    /\ Len(calls) = 2
    /\ ~calls[1].ok
    /\ calls[2].ok
    /\ analysis_data = calls[2].value

\* C4: when every configured provider fails on the request's image, each
\* provider is called at most once, no analysis is produced, no step after
\* the analysis runs, and the request ends failed with the aggregate
\* "All LLM providers failed" error as its cause.
C4_AllProvidersFailIsFatal ==
    ( /\ InFailover
      /\ ~MissingImage
      /\ \A n \in Elems(providers) : ~Standalone(n).ok )
    => /\ \A i, j \in 1..Len(calls) :
              calls[i].provider = calls[j].provider => i = j
       /\ analysis_data = NoValue
       /\ skin_analysis = NoValue
       /\ pc \in {"start", "analyzing", "fallback", "failed"}
       /\ generator_calls = 0
       /\ Elems(steps) \subseteq {"analyze"}
       /\ pc = "failed" =>
             /\ Len(calls) = Len(providers)
             /\ result.kind = "error"
             /\ result.type = "ServiceError"
             /\ result.cause_msg = AllProvidersFailed.msg

\* two providers were configured, both were tried and failed, and the
\* request has failed
C4_Witness ==
    /\ InFailover
    /\ pc = "failed"
    /\ Len(calls) = 2
    /\ \A i \in 1..Len(calls) : ~calls[i].ok

\* the catalog entries the filter is specified to keep for an analysis
MatchingIds(analysis) ==
    {CatalogData[i].id : i \in
        {k \in 1..Len(CatalogData) :
            /\ CatalogData[k].category = "face_cream"
            /\ analysis.suitable_skin_types
                  \in CatalogData[k].suitable_skin_types
            /\ Elems(analysis.targets_concerns)
                  \cap CatalogData[k].targets_concerns # {}}}

\* C5: once the filtering step has run, it has returned exactly the
\* face-cream products of the catalog that suit the analysis's skin type
\* and target one of its concerns.
C5_FilterReturnsMatches ==
    "filter" \in Elems(steps) =>
        /\ result.cause # "AttributeError"
        /\ OfferedIds = MatchingIds(skin_analysis)

\* C6: with an empty filtered subset the Generator is not invoked and the
\* request does not end in Done.
C6_EmptySubsetFails ==
    (pc \in {"generating", "reconciling", "done", "failed"}
        /\ (entry = "step3" \/ "generate" \in Elems(steps))
        /\ face_creams = <<>>)
    => generator_calls = 0 /\ pc # "done"

\* C7: a Generator answer that is not well-formed JSON, or that lacks the
\* top-level `recommendations` key, never ends in Done.
C7_MalformedPayloadFails ==
    pc = "done" => "recommendations" \in DOMAIN recommendations_data

\* C8: a request whose Generator answer carries a `recommendations` list
\* does not end in Done with an empty recommendation list.
C8_NoEmptySuccess ==
    (pc = "done" /\ "recommendations" \in DOMAIN recommendations_data)
    => result.response.recommendations # <<>>

\* C9: when two requests to the service meet two different "no result"
\* conditions (all providers failed, empty filtered subset, no valid
\* recommendation), both end with an error and the two errors differ.
C9_NoResultConditionsTellApart ==
    ( /\ Terminal
      /\ prev.cond \in {"all_providers_failed", "no_suitable_products",
                         "no_valid_recommendations"}
      /\ Condition \in {"all_providers_failed", "no_suitable_products",
                         "no_valid_recommendations"}
      /\ prev.cond # Condition )
    => /\ prev.error = "raised"
       /\ result.kind = "error"
       /\ prev.delivered # Delivered(result)

\* the score the response should carry for an examined entry
RECURSIVE ExpectedScores(_)
ExpectedScores(recs) ==
    IF recs = <<>> THEN <<>>
    ELSE IF Get(Head(recs), "product_id", "None") \in OfferedIds
    THEN <<ClampScore(Get(Head(recs), "match_score", 0))>>
             \o ExpectedScores(Tail(recs))
    ELSE ExpectedScores(Tail(recs))

\* C10: once _build_response has run, the request has ended in Done and
\* the response carries, for each examined entry naming an offered product,
\* that entry's score clamped into 0..100.
C10_ScoresClampedInResponse ==
    "build" \in Elems(steps) =>
        /\ pc = "done"
        /\ [i \in 1..Len(result.response.recommendations) |->
               result.response.recommendations[i].match_score]
             = ExpectedScores(Examined)

(***************************************************************************)
(* The Analytics Sink.                                                     *)
(***************************************************************************)
\* how many examined entries name the offered product p
ExpectedCount(p) ==
    Cardinality({i \in 1..Len(Examined) :
                   /\ Get(Examined[i], "product_id", "None") = p
                   /\ p \in OfferedIds})

AppliedCalls(p) ==
    Cardinality({t \in Trackers :
                   trk[t].product_id = p /\ Applied(trk[t].outcome)})

\* C13: under every interleaving of the in-flight recording calls, each
\* product's counter equals its initial value (0) plus the number of
\* increments the server ran for it: no update is lost.
C13_NoLostUpdate ==
    entry = "analytics" =>
        \A p \in CatalogIds :
            redis.product_recommendations[p] = AppliedCalls(p)

\* all the in-flight calls recorded the same product, their commands were
\* queued together before any was executed, and the counter holds them all
C13_Witness ==
    /\ \A t \in Trackers :
          /\ trk[t].pc = "returned"
          /\ trk[t].outcome = "ok"
          /\ trk[t].product_id = "prod_002"
    /\ redis.product_recommendations["prod_002"] = MaxTrackers
    /\ MaxTrackers >= 2

\* C14: when the sink was unreachable at construction the service holds no
\* client, every write leaves the server's keys untouched and returns, no
\* request fails because of the sink, and get_analytics returns the empty
\* result (no product stats, no daily stats, total 0).
C14_UnreachableSinkIsNoOp ==
    (redis_env = "unreachable" /\ pc \notin {"constructing", "no_service"})
    => /\ redis_client = "None"
       /\ redis = EmptyStore
       /\ \A t \in Trackers : trk[t].pc \in {"idle", "returned"}
       /\ result.kind = "error" => result.cause # "RedisError"
       /\ analytics # NoValue =>
             analytics = [product_stats |-> <<>>, daily_stats |-> <<>>,
                          total_recommendations |-> 0]

\* with the sink unreachable at construction, a write was made and
\* get_analytics was read
C14_Witness ==
    /\ redis_env = "unreachable"
    /\ \E t \in Trackers : trk[t].pc = "returned"
    /\ analytics # NoValue

(***************************************************************************)
(* The response's list and the SkinAnalysis.                               *)
(***************************************************************************)
\* the product ids the response should list, in the Generator's order
RECURSIVE ExpectedIds(_)
ExpectedIds(recs) ==
    IF recs = <<>> THEN <<>>
    ELSE IF Get(Head(recs), "product_id", "None") \in OfferedIds
    THEN <<Head(recs).product_id>> \o ExpectedIds(Tail(recs))
    ELSE ExpectedIds(Tail(recs))

C16_ConcernsOneToThree ==
    (entry = "get_recommendations" /\ skin_analysis # NoValue) =>
        /\ Len(skin_analysis.targets_concerns) \in 1..3
        /\ Cardinality(Elems(skin_analysis.targets_concerns))
             = Len(skin_analysis.targets_concerns)

(***************************************************************************)
(* Provider configuration and failover order.                              *)
(***************************************************************************)
\* no provider is configured
NoProviders ==
    ~Truthy(settings.openai_api_key) /\ ~Truthy(settings.custom_llm_api_key)

\* C17: with zero configured providers no request reaches the Analyzing
\* step or any provider, and the configuration error is raised once, at
\* construction, not once for each incoming request.
C17_ConfigErrorNotPerRequest ==
    NoProviders =>
        /\ steps = <<>>
        /\ calls = <<>>
        /\ pc \in {"constructing", "no_service"}
        /\ config_errors <= 1

\* the position of provider n in the provider table
TableIndex(n) == CHOOSE k \in 1..Len(providers) : providers[k] = n

\* C18: the first call of analyze_skin goes to the primary provider; the
\* later calls go to other providers, never the primary, in the order of
\* the provider table; a call is made only after every earlier call failed.
C18_PrimaryThenOthersInOrder ==
    InFailover =>
        /\ calls # <<>> => calls[1].provider = primary_provider
        /\ \A i \in 2..Len(calls) : calls[i].provider # primary_provider
        /\ \A i, j \in 2..Len(calls) :
              i < j => TableIndex(calls[i].provider)
                         < TableIndex(calls[j].provider)
        /\ \A i \in 1..(Len(calls) - 1) : ~calls[i].ok

\* the primary is the table's second provider; it failed, the table's
\* first provider was tried next and succeeded, and the request has ended
\* without another call
C18_Witness ==
    /\ InFailover
    /\ Terminal
    /\ primary_provider = "custom"
    /\ providers = <<"openai", "custom">>
    /\ [i \in 1..Len(calls) |-> calls[i].provider] = <<"custom", "openai">>
    /\ calls[2].ok

\* C19: once LLMService is constructed the primary provider is in the
\* provider table: it is the configured name when that provider was
\* initialized, otherwise openai when openai was initialized, otherwise
\* custom.
C19_PrimaryIsInitialized ==
    pc \notin {"constructing", "no_service"} =>
        /\ primary_provider \in Elems(providers)
        /\ Elems(providers) =
             {n \in ProviderNames :
                Truthy(IF n = "openai" THEN settings.openai_api_key
                       ELSE settings.custom_llm_api_key)}
        /\ primary_provider =
             IF settings.primary_llm_provider \in Elems(providers)
             THEN settings.primary_llm_provider
             ELSE IF "openai" \in Elems(providers) THEN "openai"
             ELSE "custom"

\* the configured primary was not initialized and the first initialized
\* provider took its place
C19_Witness ==
    /\ pc \notin {"constructing", "no_service"}
    /\ settings.primary_llm_provider = "custom"
    /\ providers = <<"openai">>
    /\ primary_provider = "openai"

\* the calls made to the custom provider
CustomCalls == {i \in 1..Len(calls) : calls[i].provider = "custom"}

\* C20: a call that gives the custom provider image bytes and no URL fails
\* without reaching its remote API; the custom provider is called at most
\* once in a request; and when it failed that way as the primary, the next
\* provider of the table is called.
C20_UrlProviderFailsOnBytes ==
    InFailover =>
        /\ \A i \in CustomCalls :
              ~Truthy(calls[i].image_url)
                 => ~calls[i].ok /\ ~calls[i].network
        /\ Cardinality(CustomCalls) <= 1
        /\ ( /\ calls # <<>>
             /\ calls[1].provider = "custom"
             /\ ~Truthy(calls[1].image_url)
             /\ "openai" \in Elems(providers)
             /\ pc # "fallback" )
           => Len(calls) = 2 /\ calls[2].provider = "openai"

\* the custom provider, primary, was given bytes only and made no network
\* call; openai was called next with the same bytes
C20_Witness ==
    /\ InFailover
    /\ Len(calls) = 2
    /\ calls[1].provider = "custom"
    /\ Truthy(calls[1].image_data)
    /\ ~Truthy(calls[1].image_url)
    /\ ~calls[1].network
    /\ calls[2].provider = "openai"
    /\ calls[2].image_data = calls[1].image_data

(***************************************************************************)
(* The pipeline's steps.                                                   *)
(***************************************************************************)
\* the steps of get_recommendations, in the order of lines 92-101
StepNames == <<"analyze", "filter", "generate", "build">>

StepIndex(name) == CHOOSE k \in 1..Len(StepNames) : StepNames[k] = name

\* the step a request runs first
FirstStep == IF entry = "step3" THEN 3 ELSE 1

\* C21: every step of a request leaves a state that is neither Done nor
\* Failed; a step that starts one of Analyzing, Filtering, Generating,
\* Reconciling starts the one that follows the last one started (so each
\* runs at most once, in order); a step that records a failure puts the
\* request in Failed (or, for the constructor, leaves no service).
C21_StepsInOrderFailureIsFinal ==
    [][ /\ ~Terminal
        /\ \/ steps' = steps
           \/ \E k \in 1..Len(StepNames) :
                 /\ steps' = Append(steps, StepNames[k])
                 /\ k = IF steps = <<>> THEN FirstStep
                        ELSE StepIndex(steps[Len(steps)]) + 1
        /\ result'.kind = "error" => pc' \in {"failed", "no_service"}
        /\ pc' = "done" => result'.kind = "response"
      ]_vars

\* Analyzing then Filtering ran, in that order, and the failure of
\* Filtering ended the request
C21_Witness ==
    /\ pc = "failed"
    /\ steps = <<"analyze", "filter">>
    /\ result.kind = "error"
    /\ generator_calls = 0

\* C22: a request that has ended in Failed has issued no increment and
\* has left every counter of the Analytics Sink as it was.
C22_FailedRequestCountsNothing ==
    pc = "failed" =>
        /\ tracked = <<>>
        /\ \A p \in CatalogIds : redis.product_recommendations[p] = 0
        /\ \A d \in Dates : redis.recommendations_by_date[d] = 0

\* with the sink available, a request failed while building the
\* recommendation of an offered product
C22_Witness ==
    /\ pc = "failed"
    /\ redis_client = "client"
    /\ "build" \in Elems(steps)
    /\ accepted # <<>>
    /\ result.cause = "ValidationError"

\* the sink has still to complete the increments of recording call t
IncrementsPending(t) ==
    /\ redis_client = "client"
    /\ trk[t].pc # "idle"
    /\ trk[t].outcome = "None"

\* C23: recording is detached from the response path: a recording call
\* whose increments the sink has not completed does not hold its caller,
\* which has already got control back and can return the response.
C23_RecordingIsDetached ==
    \A t \in Trackers : IncrementsPending(t) => trk[t].pc = "returned"

(***************************************************************************)
(* Image staging.                                                          *)
(***************************************************************************)
\* the upload passed the image service and get_recommendations was called
UploadProcessed == entry = "upload" /\ (pc = "start" \/ steps # <<>>)

\* C24: on the upload path the bytes have been staged to a URL exactly
\* when the provider analyze_skin invokes first (the effective primary)
\* is the one that requires a URL, and a first call to that provider
\* carries the staged URL.
C24_StagedForEffectivePrimary ==
    UploadProcessed =>
        /\ Truthy(image_url) <=> primary_provider = "custom"
        /\ (calls # <<>> /\ calls[1].provider = "custom")
              => Truthy(calls[1].image_url)

(***************************************************************************)
(* Truncation of the Generator's list.                                     *)
(***************************************************************************)
\* the first three entries of the Generator's list
FirstThree ==
    LET all == Get(recommendations_data, "recommendations", <<>>)
    IN  SubSeq(all, 1, IF Len(all) < 3 THEN Len(all) ELSE 3)

\* sequence s begins sequence t
IsPrefix(s, t) ==
    /\ Len(s) <= Len(t)
    /\ \A i \in 1..Len(s) : s[i] = t[i]

\* C25: _build_response examines the first three entries only: the
\* entries that reach the construction of a recommendation are, in order,
\* offered products named among the first three, and when none of the
\* first three names an offered product the response is returned empty,
\* whatever the fourth entry is.
C25_OnlyFirstThreeExamined ==
    "build" \in Elems(steps) =>
        /\ IsPrefix(accepted, ExpectedIds(FirstThree))
        /\ ExpectedIds(FirstThree) = <<>> =>
              /\ pc = "done"
              /\ result.response.recommendations = <<>>

\* the three first entries were skipped, the fourth names an offered
\* product, and the response was returned without it
C25_Witness ==
    /\ pc = "done"
    /\ Len(Get(recommendations_data, "recommendations", <<>>)) = 4
    /\ recommendations_data.recommendations[4].product_id \in OfferedIds
    /\ accepted = <<>>
    /\ result.response.recommendations = <<>>

(***************************************************************************)
(* The two counters move together.                                         *)
(***************************************************************************)
RECURSIVE SumOver(_, _)
\* the sum of f over the set S
SumOver(f, S) ==
    IF S = {} THEN 0
    ELSE LET x == CHOOSE y \in S : TRUE
         IN  f[x] + SumOver(f, S \ {x})

\* C26: starting from empty counters, in every reachable state, whatever
\* the interleaving of the recording calls and whatever the sink does, the
\* per-product counters and the per-day counters have the same sum.
C26_CountersMoveTogether ==
    SumOver(redis.product_recommendations, CatalogIds)
      = SumOver(redis.recommendations_by_date, Dates)

\* one recording call was refused, the reply of another was lost after the
\* server ran its block, and both counters hold that one increment
C26_Witness ==
    /\ \E t \in Trackers : trk[t].outcome = "refused"
    /\ \E t \in Trackers : trk[t].outcome = "reply_lost"
    /\ SumOver(redis.product_recommendations, CatalogIds) = 1
    /\ SumOver(redis.recommendations_by_date, Dates) = 1

(***************************************************************************)
(* Termination.                                                            *)
(***************************************************************************)
\* C27: a request that has entered the pipeline ends in Done or Failed,
\* and at every moment the vision providers invoked for it are distinct
\* configured providers, so they are at most as many as the provider table
\* holds.
C27_TerminatesWithBoundedCalls ==
    /\ [](/\ Len(calls) <= Len(providers)
          /\ \A i, j \in 1..Len(calls) :
                i # j => calls[i].provider # calls[j].provider
          /\ \A i \in 1..Len(calls) : calls[i].provider \in Elems(providers))
    /\ (pc \in {"start", "generating"}) ~> Terminal

\* both configured providers were invoked, once each, and the request went
\* on and ended
C27_Witness ==
    /\ Terminal
    /\ Len(providers) = 2
    /\ Len(calls) = Len(providers)
    /\ calls[1].provider # calls[2].provider
    /\ "filter" \in Elems(steps)

=============================================================================
